---- MODULE Spec2Model ----
(***************************************************************************)
(* Model of the Raft consensus module of BU-TicketChain,                   *)
(* src/backend/src/raft/index.ts (class RaftNode), and of its contract,    *)
(* src/contracts/contracts/TicketChain.sol (variable chain, SpecChain).    *)
(*                                                                         *)
(* Every RaftNode runs on one event loop, so each timer callback, each RPC *)
(* handler and each continuation after an awaited RPC is one atomic step.  *)
(* An RPC (sendRPC, an HTTP POST) is a request in flight, the handler run  *)
(* on the receiver when it is delivered, and a response in flight that     *)
(* carries the values captured by the sender's continuation.  A failed or  *)
(* aborted RPC is a message that is lost.  Identical requests in flight to *)
(* the same peer are one element of the set of requests.                   *)
(***************************************************************************)
EXTENDS Integers, Sequences, FiniteSets, TLC

\* ---------------------------------------------------------------- bounds
\* Spec: any node's election timer may fire
MaxElections == 2
MaxTicks == 1
MaxLog == 2
MaxRequests == 1
MaxResponses == 1
\* SpecRepl: three entries, and requests that overtake one another
MaxElectionsRepl == 2
MaxTicksRepl == 1
MaxLogRepl == 3
MaxRequestsRepl == 3
MaxResponsesRepl == 1

\* SpecCalls: a node that is Leader twice, and the timeouts of its submitCommand calls
MaxElectionsCalls == 3
MaxTicksCalls == 1
MaxLogCalls == 1
MaxRequestsCalls == 1
MaxResponsesCalls == 1

\* SpecTerms: three elections, and the responses of a round that arrive late
MaxElectionsTerms == 3
MaxTicksTerms == 1
MaxLogTerms == 1
MaxRequestsTerms == 2
MaxResponsesTerms == 1

\* SpecLive: one Leader, one peer that answers, two commands
MaxElectionsLive == 1
MaxTicksLive == 1
MaxLogLive == 2
MaxRequestsLive == 1
MaxResponsesLive == 1

\* SpecRepair: a deposed Leader whose log the new Leader repairs
MaxElectionsRepair == 2
MaxTicksRepair == 0
MaxLogRepair == 1
MaxRequestsRepair == 1
MaxResponsesRepair == 1

\* SpecAgain: a node that is Leader in two terms, and what was sent in the first
MaxElectionsAgain == 3
MaxTicksAgain == 0
MaxLogAgain == 1
MaxRequestsAgain == 2
MaxResponsesAgain == 1

\* SpecPending: as SpecRepl with two entries, and clients that submit at any node
MaxElectionsPending == 2
MaxTicksPending == 1
MaxLogPending == 2
MaxRequestsPending == 2
MaxResponsesPending == 1

\* SpecChain: the TicketChain contract, one event, two tickets, three purchases
MaxEventIds == 1
MaxSupply == 2
MaxPrice == 2
MaxTime == 2
MaxSerial == 3

\* ------------------------------------------------------------- constants
Nodes == {"n1", "n2", "n3"}
\* The payload of a command submitted at node n.  Payloads carry a txHash or an
\* eventId, so two submissions never carry the same one; with the term and the
\* index of its entry, the node a command was submitted at identifies it.
CommandAt(n) == n
Nil == "null"
FOLLOWER == "FOLLOWER"
CANDIDATE == "CANDIDATE"
LEADER == "LEADER"
\* what log[i] yields past the end of the array
Undefined == [term |-> -1, index |-> -1, command |-> Nil]

VARIABLES
    cluster,      \* the nodes of the deployment: config.nodeId of each, config.peers the others
    node,         \* node[n]: the fields of RaftNode n
    voteReqs,     \* RequestVote requests in flight
    voteResps,    \* RequestVote responses in flight, with the continuation's captured term
    appendReqs,   \* AppendEntries requests in flight
    appendResps,  \* AppendEntries responses in flight, with the continuation's captured values
    elections,    \* the number of elections started so far
    ticks,        \* the number of heartbeat ticks so far
    chain         \* the TicketChain contract: its storage, its balance, the block time, the last call

vars == <<cluster, node, voteReqs, voteResps, appendReqs, appendResps, elections, ticks, chain>>

Peers(n) == cluster \ {n}

Min(a, b) == IF a < b THEN a ELSE b
Max(a, b) == IF a > b THEN a ELSE b

\* ------------------------------------------------------------ RaftNode
\* constructor
NewNode ==
    [ role |-> FOLLOWER,
      leaderId |-> Nil,
      currentTerm |-> 0,
      votedFor |-> Nil,
      log |-> << >>,
      commitIndex |-> 0,
      lastApplied |-> 0,
      electionTimer |-> FALSE,
      heartbeatTimer |-> FALSE,
      nextIndex |-> [p \in Nodes |-> 0],      \* 0: no key for the peer yet
      matchIndex |-> [p \in Nodes |-> 0],
      pendingRequests |-> {},                 \* the indices that have a pending request
      votesReceived |-> 0,                    \* local of the latest startElection call
      applied |-> << >>,                      \* the entries handed to onCommandApplied, in order
      elected |-> {},                         \* the terms of this node's onLeaderElected calls
      calls |-> << >>,                        \* the submitCommand calls a Leader accepted
      stopped |-> FALSE ]                     \* stop() was called and start() not since

resetElectionTimer(s) == [s EXCEPT !.electionTimer = TRUE]

clearElectionTimer(s) == [s EXCEPT !.electionTimer = FALSE]

clearHeartbeatTimer(s) == [s EXCEPT !.heartbeatTimer = FALSE]

\* Math.floor((peers.length + 1) / 2) + 1
Majority(peers) == ((Cardinality(peers) + 1) \div 2) + 1

\* a comparison of the logs by their lengths alone
isLogUpToDateByIndex(s, lastLogIndex, lastLogTerm) == lastLogIndex >= Len(s.log)

isLogUpToDate(s, lastLogIndex, lastLogTerm) ==
    LET ourLastIndex == Len(s.log)
        ourLastTerm == IF ourLastIndex > 0 THEN s.log[ourLastIndex].term ELSE 0
    IN  IF lastLogTerm # ourLastTerm
        THEN lastLogTerm > ourLastTerm
        ELSE lastLogIndex >= ourLastIndex

\* The results of a submitCommand call.  A call is a record of the index and the
\* term of its entry, its outcome, and whether the setTimeout of line 166 is still
\* to fire.
PENDING == "pending"
SUCCESS == "success"
NO_LONGER_LEADER == "No longer leader"
NODE_STOPPED == "Node stopped"
REPLICATION_TIMEOUT == "Replication timeout"

NewCall(index, term, outcome, timer) ==
    [index |-> index, term |-> term, outcome |-> outcome, timer |-> timer]

\* a promise that could be settled again
SettleAgain(calls, c, outcome) == [calls EXCEPT ![c].outcome = outcome]

\* resolve or reject of the promise of line 162: only the first call settles it
Settle(calls, c, outcome) ==
    IF calls[c].outcome = PENDING THEN [calls EXCEPT ![c].outcome = outcome] ELSE calls

\* pendingRequests[i]: the call that registered itself at index i last (line 163)
PendingCall(s, i) ==
    CHOOSE c \in 1..Len(s.calls) :
        /\ s.calls[c].index = i
        /\ \A d \in (c + 1)..Len(s.calls) : s.calls[d].index # i

\* the loops of lines 124-131 and 367-375: reject and delete every pending request
RECURSIVE RejectAll(_, _)
RejectAll(s, error) ==
    IF s.pendingRequests = {} THEN s
    ELSE LET idx == CHOOSE i \in s.pendingRequests : TRUE
         IN  RejectAll([s EXCEPT !.calls = Settle(@, PendingCall(s, idx), error),
                                 !.pendingRequests = @ \ {idx}], error)

\* wasLeader computed after the role has been assigned
WasLeaderLate(s) == [s EXCEPT !.role = FOLLOWER].role = LEADER

\* line 356: wasLeader, computed before the role is assigned
WasLeader(s) == s.role = LEADER

becomeFollower(s, term) ==
    LET wasLeader == WasLeader(s)
        s1 == [s EXCEPT !.role = FOLLOWER, !.currentTerm = term, !.votedFor = Nil]
        s2 == resetElectionTimer(clearHeartbeatTimer(s1))
    IN  IF wasLeader THEN RejectAll(s2, NO_LONGER_LEADER) ELSE s2

\* log[lastApplied - 1] after lastApplied++
EntryAt(log, i) == IF i >= 1 /\ i <= Len(log) THEN log[i] ELSE Undefined

\* an apply loop that jumps to commitIndex
NextToApplySkips(s) == s.commitIndex

\* line 460: lastApplied++
NextToApply(s) == s.lastApplied + 1

\* an apply loop that runs to the end of the log
HasEntryToApply(s) == s.lastApplied < Len(s.log)

\* line 459: the condition of the while loop
HasCommittedToApply(s) == s.lastApplied < s.commitIndex

RECURSIVE applyCommittedEntries(_)
applyCommittedEntries(s) ==
    IF HasCommittedToApply(s)
    THEN LET i == NextToApply(s)
             entry == EntryAt(s.log, i)
             s1 == [s EXCEPT !.lastApplied = i, !.applied = Append(@, entry)]
         IN  IF entry = Undefined
             THEN s1      \* entry.index throws: the loop ends here
             ELSE IF entry.index \in s1.pendingRequests
             THEN applyCommittedEntries(
                      [s1 EXCEPT !.calls = Settle(@, PendingCall(s1, entry.index), SUCCESS),
                                 !.pendingRequests = @ \ {entry.index}])
             ELSE applyCommittedEntries(s1)
    ELSE s

\* a tryCommit that counts replicas for entries of any term
AnyTermEntry(s, n) == n <= Len(s.log)

\* line 441: only entries of the current term are counted
IsCurrentTermEntry(s, n) == s.log[n].term = s.currentTerm

\* lines 443-446 with a count that starts at 0
ReplicaCountWithoutSelf(s, peers, n) == Cardinality({p \in peers : s.matchIndex[p] >= n})

\* lines 443-446: the leader and every peer with matchIndex >= n
ReplicaCount(s, peers, n) == 1 + Cardinality({p \in peers : s.matchIndex[p] >= n})

tryCommit(s, peers) ==
    IF s.role # LEADER THEN s
    ELSE LET found == {n \in (s.commitIndex + 1)..Len(s.log) :
                          /\ IsCurrentTermEntry(s, n)
                          /\ ReplicaCount(s, peers, n) >= Majority(peers)}
         IN  IF found = {} THEN s
             ELSE LET n == CHOOSE x \in found : \A y \in found : y <= x
                  IN  applyCommittedEntries([s EXCEPT !.commitIndex = n])

\* a becomeLeader that leaves matchIndex as the last leadership left it
becomeLeaderKeepingMatchIndex(s, self, peers) ==
    IF s.role = LEADER THEN s
    ELSE [clearElectionTimer(s) EXCEPT
            !.role = LEADER,
            !.leaderId = self,
            !.nextIndex = [p \in Nodes |-> IF p \in peers THEN Len(s.log) + 1 ELSE @[p]],
            !.heartbeatTimer = TRUE,
            !.elected = @ \cup {s.currentTerm}]

becomeLeader(s, self, peers) ==
    IF s.role = LEADER THEN s
    ELSE [clearElectionTimer(s) EXCEPT
            !.role = LEADER,
            !.leaderId = self,
            !.nextIndex = [p \in Nodes |-> IF p \in peers THEN Len(s.log) + 1 ELSE @[p]],
            !.matchIndex = [p \in Nodes |-> IF p \in peers THEN 0 ELSE @[p]],
            !.heartbeatTimer = TRUE,
            !.elected = @ \cup {s.currentTerm}]

\* the request replicateToPeer builds for peer from the state s
AppendEntriesRequest(s, self, peer) ==
    LET nextIdx == IF s.nextIndex[peer] = 0 THEN 1 ELSE s.nextIndex[peer]
        prevLogIndex == nextIdx - 1
        prevLogTerm == IF prevLogIndex > 0 /\ prevLogIndex <= Len(s.log)
                       THEN s.log[prevLogIndex].term ELSE 0
    IN  [ src |-> self, dst |-> peer,
          term |-> s.currentTerm,
          leaderId |-> self,
          prevLogIndex |-> prevLogIndex,
          prevLogTerm |-> prevLogTerm,
          entries |-> SubSeq(s.log, nextIdx, Len(s.log)),
          leaderCommit |-> s.commitIndex ]

\* replicateLog: one request per peer, none unless Leader
replicateLog(s, self, peers) ==
    IF s.role # LEADER THEN {}
    ELSE {AppendEntriesRequest(s, self, p) : p \in peers}

RequestVoteRequest(s, self, peer) ==
    LET lastLogIndex == Len(s.log)
    IN  [ src |-> self, dst |-> peer,
          term |-> s.currentTerm,
          candidateId |-> self,
          lastLogIndex |-> lastLogIndex,
          lastLogTerm |-> IF lastLogIndex > 0 THEN s.log[lastLogIndex].term ELSE 0 ]

\* a node that takes itself for one of several
IsNeverSingleNode(peers) == FALSE

\* lines 154 and 280: config.peers is empty
IsSingleNode(peers) == peers = {}

\* startElection up to the first await
startElection(s, self, peers) ==
    LET s1 == [s EXCEPT !.role = CANDIDATE,
                        !.currentTerm = @ + 1,
                        !.votedFor = self,
                        !.leaderId = Nil,
                        !.votesReceived = 1]
    IN  IF IsSingleNode(peers) THEN becomeLeader(s1, self, peers) ELSE s1

\* the errors submitCommand throws on a node that is not Leader (lines 138-143)
NoError == [message |-> "", leader |-> Nil]

\* an error that never names the leader
NotLeaderUnnamed(leaderId) == [message |-> "No leader available", leader |-> Nil]

NotLeader(leaderId) ==
    IF leaderId # Nil
    THEN [message |-> "Not leader. Current leader: ", leader |-> leaderId]
    ELSE [message |-> "No leader available", leader |-> Nil]

\* submitCommand(command) up to the replication round it starts: the node after
\* the call, the error thrown at once, and whether replicateLog is called
submitCommand(s, self, peers) ==
    IF s.role # LEADER
    THEN [st |-> s, error |-> NotLeader(s.leaderId), replicates |-> FALSE]
    ELSE LET entry == [term |-> s.currentTerm, index |-> Len(s.log) + 1,
                       command |-> CommandAt(self)]
             s1 == [s EXCEPT !.log = Append(@, entry)]
         IN  IF IsSingleNode(peers)
             THEN [st |-> [applyCommittedEntries([s1 EXCEPT !.commitIndex = entry.index])
                              EXCEPT !.calls = Append(@, NewCall(entry.index, entry.term, SUCCESS, FALSE))],
                   error |-> NoError, replicates |-> FALSE]
             ELSE [st |-> [s1 EXCEPT !.pendingRequests = @ \cup {entry.index},
                                     !.calls = Append(@, NewCall(entry.index, entry.term, PENDING, TRUE))],
                   error |-> NoError, replicates |-> TRUE]

\* a timeout callback that also takes the entry of the call out of the log
onRequestTimeoutRetracting(s, c) ==
    LET s1 == [s EXCEPT !.calls[c].timer = FALSE]
        index == s.calls[c].index
    IN  IF index \in s1.pendingRequests
        THEN [s1 EXCEPT !.pendingRequests = @ \ {index},
                        !.calls = Settle(@, c, REPLICATION_TIMEOUT),
                        !.log = SubSeq(@, 1, index - 1)]
        ELSE s1

\* the callback of the setTimeout of lines 166-172, set by call c
onRequestTimeout(s, c) ==
    LET s1 == [s EXCEPT !.calls[c].timer = FALSE]
        index == s.calls[c].index
    IN  IF index \in s1.pendingRequests
        THEN [s1 EXCEPT !.pendingRequests = @ \ {index},
                        !.calls = Settle(@, c, REPLICATION_TIMEOUT)]
        ELSE s1

\* stop()
stop(s) ==
    [RejectAll(clearHeartbeatTimer(clearElectionTimer(s)), NODE_STOPPED)
        EXCEPT !.stopped = TRUE]

\* start()
start(s) == [resetElectionTimer(s) EXCEPT !.stopped = FALSE]

\* the comparison of line 230 turned around
RecognizesLeaderInverted(requestTerm, currentTerm) == requestTerm < currentTerm

\* line 230: the sender is recognized as leader
RecognizesLeader(requestTerm, currentTerm) == requestTerm >= currentTerm

\* lines 199 and 225 rejecting only a term older by two or more
IsStaleTermByTwo(requestTerm, currentTerm) == requestTerm < currentTerm - 1

\* lines 199 and 225: a request of an older term is rejected
IsStaleTerm(requestTerm, currentTerm) == requestTerm < currentTerm

handleRequestVote(s, request) ==
    IF IsStaleTerm(request.term, s.currentTerm)
    THEN [st |-> s, term |-> s.currentTerm, voteGranted |-> FALSE]
    ELSE LET s1 == IF request.term > s.currentTerm
                   THEN becomeFollower(s, request.term) ELSE s
             canVote == /\ (s1.votedFor = Nil \/ s1.votedFor = request.candidateId)
                        /\ isLogUpToDate(s1, request.lastLogIndex, request.lastLogTerm)
         IN  IF canVote
             THEN [st |-> resetElectionTimer([s1 EXCEPT !.votedFor = request.candidateId]),
                   term |-> s1.currentTerm, voteGranted |-> TRUE]
             ELSE [st |-> s1, term |-> s1.currentTerm, voteGranted |-> FALSE]

\* line 246 leaving the log as it is
WithConflict(log, prevLogIndex) == log

\* line 246: the entry at prevLogIndex and those after it are deleted
WithoutConflict(log, prevLogIndex) == SubSeq(log, 1, prevLogIndex - 1)

\* entries pushed without the slice of line 253
AppendedAtEnd(log, prevLogIndex, entries) == log \o entries

\* lines 253-254: the log is cut after prevLogIndex and the entries are pushed
Appended(log, prevLogIndex, entries) == SubSeq(log, 1, prevLogIndex) \o entries

\* matchIndex of a response that carries none
NoMatchIndex == -1

handleAppendEntries(s, request) ==
    IF IsStaleTerm(request.term, s.currentTerm)
    THEN [st |-> s, term |-> s.currentTerm, success |-> FALSE, matchIndex |-> NoMatchIndex]
    ELSE LET s1 == IF RecognizesLeader(request.term, s.currentTerm)
                   THEN [becomeFollower(s, request.term) EXCEPT !.leaderId = request.leaderId]
                   ELSE s
             s2 == resetElectionTimer(s1)
             prev == request.prevLogIndex
         IN  IF prev > 0 /\ prev > Len(s2.log)
             THEN [st |-> s2, term |-> s2.currentTerm, success |-> FALSE,
                   matchIndex |-> NoMatchIndex]
             ELSE IF prev > 0 /\ s2.log[prev].term # request.prevLogTerm
             THEN [st |-> [s2 EXCEPT !.log = WithoutConflict(@, prev)],
                   term |-> s2.currentTerm, success |-> FALSE, matchIndex |-> NoMatchIndex]
             ELSE LET s3 == IF Len(request.entries) > 0
                            THEN [s2 EXCEPT !.log = Appended(@, prev, request.entries)]
                            ELSE s2
                      s4 == IF request.leaderCommit > s3.commitIndex
                            THEN applyCommittedEntries(
                                     [s3 EXCEPT !.commitIndex =
                                         Min(request.leaderCommit, Len(s3.log))])
                            ELSE s3
                  IN  [st |-> s4, term |-> s4.currentTerm, success |-> TRUE,
                       matchIndex |-> Len(s4.log)]

\* line 302 without the comparison of the terms
RoundIsOverByRole(s, roundTerm) == s.role # CANDIDATE

\* line 302: the node is no longer Candidate in the term of the round
RoundIsOver(s, roundTerm) == s.role # CANDIDATE \/ s.currentTerm # roundTerm

\* the continuation of startElection after one peer's response (lines 301-316)
onVoteResponse(s, self, peers, response) ==
    IF RoundIsOver(s, response.roundTerm) THEN s
    ELSE IF response.term > s.currentTerm THEN becomeFollower(s, response.term)
    ELSE IF response.voteGranted
    THEN LET s1 == [s EXCEPT !.votesReceived = @ + 1]
         IN  IF s1.votesReceived >= Majority(peers) /\ s1.role = CANDIDATE
             THEN becomeLeader(s1, self, peers)
             ELSE s1
    ELSE s

\* line 412 with "differs from" in place of "greater than"
IsOtherTerm(responseTerm, currentTerm) == responseTerm # currentTerm

\* line 412: the response tells of a newer term
IsNewerTerm(responseTerm, currentTerm) == responseTerm > currentTerm

\* the continuation of replicateToPeer after the peer's response (lines 411-428),
\* without the request of the retry
onAppendResponse(s, peers, response) ==
    IF IsNewerTerm(response.term, s.currentTerm) THEN becomeFollower(s, response.term)
    ELSE IF s.role # LEADER THEN s
    ELSE IF response.success
    THEN LET newMatchIndex == IF response.matchIndex # NoMatchIndex
                              THEN response.matchIndex
                              ELSE response.prevLogIndex + response.sent
         IN  tryCommit([s EXCEPT !.nextIndex[response.src] = newMatchIndex + 1,
                                 !.matchIndex[response.src] = newMatchIndex], peers)
    ELSE [s EXCEPT !.nextIndex[response.src] = Max(1, response.nextIdx - 1)]

\* the retry of line 427 is made exactly on a failure that a Leader of no older term reads
Retries(s, response) ==
    /\ ~IsNewerTerm(response.term, s.currentTerm)
    /\ s.role = LEADER
    /\ ~response.success

\* --------------------------------------------------------------- network
\* The requests of one round of sends that get into the network: fetch fails at
\* once for the others (sendRPC throws, the catch blocks ignore it).
Sent(requests) == SUBSET requests

\* The part of the state space a specification explores.
Within(maxElections, maxTicks, maxLog, maxRequests, maxResponses) ==
    /\ elections <= maxElections
    /\ ticks <= maxTicks
    /\ \A n \in Nodes : Len(node[n].log) <= maxLog
    /\ Cardinality(voteReqs) + Cardinality(appendReqs) <= maxRequests
    /\ Cardinality(voteResps) + Cardinality(appendResps) <= maxResponses

\* ------------------------------------------ TicketChain.sol: the contract
\* The accounts that call the contract are externally owned: a transfer of
\* ether to one of them runs no code and succeeds whenever the contract holds
\* the amount.  A call that reverts leaves the storage and the balance as they
\* were; chain.last records the call and its outcome.
Owner == "owner"
Accounts == {Owner, "alice"}
ZeroAddress == "0x0"
EventIds == 1..MaxEventIds
Prices == 1..MaxPrice
Times == 0..MaxTime
Names == {"", "Gala"}
Quantities == 0..MaxSupply

\* events[eventId] of an id that createEvent has not assigned yet
NoEvent ==
    [id |-> 0, name |-> "", price |-> 0, discountedPrice |-> 0, maxSupply |-> 0,
     totalSold |-> 0, startTime |-> 0, endTime |-> 0, exists |-> FALSE]

\* The contract after its constructor.  balanceOf is the ERC1155 balance;
\* purchased[e][a][p] is the number of tickets of event e held by a for which
\* TicketPurchased reported pricePaid = p (carried along by TicketTransferred).
NewChain ==
    [events           |-> [e \in EventIds |-> NoEvent],
     discountEligible |-> [a \in Accounts |-> FALSE],
     ticketsByUser    |-> [e \in EventIds |-> [a \in Accounts |-> 0]],
     balanceOf        |-> [e \in EventIds |-> [a \in Accounts |-> 0]],
     nextEventId      |-> 1,
     nextTicketSerial |-> [e \in EventIds |-> 0],
     balance          |-> 0,
     timestamp        |-> 0,
     purchased        |-> [e \in EventIds |-> [a \in Accounts |-> [p \in Prices |-> 0]]],
     last             |-> [op |-> "constructor", outcome |-> "ok", amount |-> 0]]

Reverted(c, op, reason) ==
    [c EXCEPT !.last = [op |-> op, outcome |-> reason, amount |-> 0]]

Returned(c, op, amount) ==
    [c EXCEPT !.last = [op |-> op, outcome |-> "ok", amount |-> amount]]

getTicketPrice(c, eventId, user) ==
    IF c.discountEligible[user] THEN c.events[eventId].discountedPrice
    ELSE c.events[eventId].price

createEvent(c, sender, name, price, discountedPrice, maxSupply, startTime, endTime) ==
    LET eventId == c.nextEventId IN
    IF sender # Owner THEN Reverted(c, "createEvent", "OwnableUnauthorizedAccount")
    ELSE IF name = "" THEN Reverted(c, "createEvent", "Name cannot be empty")
    ELSE IF ~(maxSupply > 0) THEN Reverted(c, "createEvent", "Max supply must be > 0")
    ELSE IF ~(startTime < endTime)
         THEN Reverted(c, "createEvent", "Start time must be before end time")
    ELSE IF ~(discountedPrice <= price)
         THEN Reverted(c, "createEvent", "Discounted price cannot exceed regular price")
    ELSE Returned([c EXCEPT !.nextEventId = @ + 1,
                            !.events[eventId] =
                                [id |-> eventId, name |-> name, price |-> price,
                                 discountedPrice |-> discountedPrice, maxSupply |-> maxSupply,
                                 totalSold |-> 0, startTime |-> startTime, endTime |-> endTime,
                                 exists |-> TRUE]],
                  "createEvent", 0)

setDiscountEligibility(c, sender, user, eligible) ==
    IF sender # Owner
    THEN Reverted(c, "setDiscountEligibility", "OwnableUnauthorizedAccount")
    ELSE IF user = ZeroAddress
    THEN Reverted(c, "setDiscountEligibility", "Invalid address")
    ELSE Returned([c EXCEPT !.discountEligible[user] = eligible],
                  "setDiscountEligibility", 0)

IsSoldOutAbove(eventInfo) == ~(eventInfo.totalSold < eventInfo.maxSupply + 1)
IsSoldOut(eventInfo) == ~(eventInfo.totalSold < eventInfo.maxSupply)

buyTicket(c, sender, eventId, value) ==
    LET eventInfo == c.events[eventId]
        ticketPrice == getTicketPrice(c, eventId, sender)
    IN  IF ~eventInfo.exists
        THEN Reverted(c, "buyTicket", "Event does not exist")
        ELSE IF ~(c.timestamp < eventInfo.endTime)
        THEN Reverted(c, "buyTicket", "Event has ended")
        ELSE IF IsSoldOut(eventInfo)
        THEN Reverted(c, "buyTicket", "Event sold out")
        ELSE IF ~(value >= ticketPrice)
        THEN Reverted(c, "buyTicket", "Insufficient payment")
        ELSE Returned([c EXCEPT !.nextTicketSerial[eventId] = @ + 1,
                                !.events[eventId].totalSold = @ + 1,
                                !.ticketsByUser[eventId][sender] = @ + 1,
                                !.balanceOf[eventId][sender] = @ + 1,
                                !.balance = @ + ticketPrice,
                                !.purchased[eventId][sender][ticketPrice] = @ + 1],
                      "buyTicket", ticketPrice)

RECURSIVE SumTo(_, _)
SumTo(f, p) == IF p < 1 THEN 0 ELSE f[p] + SumTo(f, p - 1)

\* the ways to pick quantity of the tickets that holder has, by the price paid for them
Picks(c, eventId, holder, quantity) ==
    {m \in [Prices -> 0..quantity] :
        /\ SumTo(m, MaxPrice) = quantity
        /\ \A p \in Prices : m[p] <= c.purchased[eventId][holder][p]}

\* moved: which of the sender's tickets are the ones given away
transferTicket(c, sender, eventId, to, quantity, moved) ==
    IF ~c.events[eventId].exists
    THEN Reverted(c, "transferTicket", "Event does not exist")
    ELSE IF to = ZeroAddress
    THEN Reverted(c, "transferTicket", "Cannot transfer to zero address")
    ELSE IF to = sender
    THEN Reverted(c, "transferTicket", "Cannot transfer to self")
    ELSE IF ~(c.balanceOf[eventId][sender] >= quantity)
    THEN Reverted(c, "transferTicket", "Insufficient tickets")
    ELSE IF c.ticketsByUser[eventId][sender] < quantity
    THEN Reverted(c, "transferTicket", "Panic(0x11)")
    ELSE Returned([c EXCEPT !.ticketsByUser[eventId][sender] = @ - quantity,
                            !.ticketsByUser[eventId][to] = @ + quantity,
                            !.balanceOf[eventId][sender] = @ - quantity,
                            !.balanceOf[eventId][to] = @ + quantity,
                            !.purchased[eventId][sender] = [p \in Prices |-> @[p] - moved[p]],
                            !.purchased[eventId][to] = [p \in Prices |-> @[p] + moved[p]]],
                  "transferTicket", quantity)

\* refunded: which of the sender's tickets is the one burnt
refundTicket(c, sender, eventId, refunded) ==
    LET eventInfo == c.events[eventId]
        refundAmount == getTicketPrice(c, eventId, sender)
    IN  IF ~eventInfo.exists
        THEN Reverted(c, "refundTicket", "Event does not exist")
        ELSE IF ~(c.timestamp < eventInfo.startTime)
        THEN Reverted(c, "refundTicket", "Cannot refund after event starts")
        ELSE IF ~(c.balanceOf[eventId][sender] >= 1)
        THEN Reverted(c, "refundTicket", "No tickets to refund")
        ELSE IF eventInfo.totalSold = 0 \/ c.ticketsByUser[eventId][sender] = 0
        THEN Reverted(c, "refundTicket", "Panic(0x11)")
        ELSE IF c.balance < refundAmount
        THEN Reverted(c, "refundTicket", "Refund transfer failed")
        ELSE Returned([c EXCEPT !.balanceOf[eventId][sender] = @ - 1,
                                !.events[eventId].totalSold = @ - 1,
                                !.ticketsByUser[eventId][sender] = @ - 1,
                                !.balance = @ - refundAmount,
                                !.purchased[eventId][sender][refunded] = @ - 1],
                      "refundTicket", refundAmount)

withdraw(c, sender) ==
    IF sender # Owner THEN Reverted(c, "withdraw", "OwnableUnauthorizedAccount")
    ELSE IF ~(c.balance > 0) THEN Reverted(c, "withdraw", "No balance to withdraw")
    ELSE Returned([c EXCEPT !.balance = 0], "withdraw", c.balance)

\* ------------------------------------------------------------------ Init
Init ==
    /\ cluster \in {{"n1"}, Nodes}
    /\ node = [n \in Nodes |-> NewNode]
    /\ voteReqs = {}
    /\ voteResps = {}
    /\ appendReqs = {}
    /\ appendResps = {}
    /\ elections = 0
    /\ ticks = 0
    /\ chain = NewChain

\* --------------------------------------------------------------- actions
\* start() on a node as constructed, or after stop()
Start(n) ==
    /\ n \in cluster
    /\ node[n] = NewNode \/ node[n].stopped
    /\ node' = [node EXCEPT ![n] = start(@)]
    /\ UNCHANGED <<ticks, elections, cluster, chain, voteReqs, voteResps, appendReqs, appendResps>>

\* the election timer fires (lines 482-486)
ElectionTimeout(n) ==
    /\ n \in cluster
    /\ node[n].electionTimer
    /\ LET s == [node[n] EXCEPT !.electionTimer = FALSE]
       IN  IF s.role # LEADER
           THEN /\ elections' = elections + 1
                /\ LET s1 == startElection(s, n, Peers(n))
                   IN  /\ node' = [node EXCEPT ![n] = s1]
                       /\ \E rv \in Sent({RequestVoteRequest(s1, n, p) : p \in Peers(n)}) :
                              voteReqs' = voteReqs \cup rv
                       /\ \E ae \in Sent(replicateLog(s1, n, Peers(n))) :
                              appendReqs' = appendReqs \cup ae
           ELSE /\ node' = [node EXCEPT ![n] = s]
                /\ UNCHANGED <<voteReqs, appendReqs, elections>>
    /\ UNCHANGED <<ticks, cluster, chain, voteResps, appendResps>>

\* every RPC of the round has settled and the node is still Candidate (lines 322-327)
ElectionRoundSettled(n) ==
    /\ n \in cluster
    /\ node[n].role = CANDIDATE
    /\ ~node[n].electionTimer
    /\ node' = [node EXCEPT ![n] = resetElectionTimer(@)]
    /\ UNCHANGED <<ticks, elections, cluster, chain, voteReqs, voteResps, appendReqs, appendResps>>

\* a RequestVote request reaches its peer
DeliverRequestVote(m) ==
    /\ m \in voteReqs
    /\ LET r == handleRequestVote(node[m.dst], m)
       IN  /\ node' = [node EXCEPT ![m.dst] = r.st]
           /\ \E rs \in Sent({[src |-> m.dst, dst |-> m.src, term |-> r.term,
                                voteGranted |-> r.voteGranted, roundTerm |-> m.term]}) :
                  voteResps' = voteResps \cup rs
    /\ voteReqs' = voteReqs \ {m}
    /\ UNCHANGED <<ticks, elections, cluster, chain, appendReqs, appendResps>>

\* a RequestVote response reaches the candidate
DeliverVoteResponse(m) ==
    /\ m \in voteResps
    /\ LET s1 == onVoteResponse(node[m.dst], m.dst, Peers(m.dst), m)
           becameLeader == node[m.dst].role # LEADER /\ s1.role = LEADER
       IN  /\ node' = [node EXCEPT ![m.dst] = s1]
           /\ \E ae \in Sent(IF becameLeader
                            THEN replicateLog(s1, m.dst, Peers(m.dst)) ELSE {}) :
                  appendReqs' = appendReqs \cup ae
    /\ voteResps' = voteResps \ {m}
    /\ UNCHANGED <<ticks, elections, cluster, chain, voteReqs, appendResps>>

\* the heartbeat ticker fires (line 348, sendHeartbeat)
HeartbeatTick(n) ==
    /\ n \in cluster
    /\ node[n].heartbeatTimer
    /\ ticks' = ticks + 1
    /\ \E ae \in Sent(replicateLog(node[n], n, Peers(n))) :
          appendReqs' = appendReqs \cup ae
    /\ UNCHANGED <<elections, cluster, chain, node, voteReqs, voteResps, appendResps>>

\* submitCommand(command)
SubmitCommand(n) ==
    /\ n \in cluster
    /\ LET r == submitCommand(node[n], n, Peers(n))
       IN  /\ node' = [node EXCEPT ![n] = r.st]
           /\ IF r.replicates
              THEN \E ae \in Sent(replicateLog(r.st, n, Peers(n))) :
                       appendReqs' = appendReqs \cup ae
              ELSE UNCHANGED appendReqs
    /\ UNCHANGED <<ticks, elections, cluster, chain, voteReqs, voteResps, appendResps>>

\* an AppendEntries request reaches its peer
DeliverAppendEntries(m) ==
    /\ m \in appendReqs
    /\ LET r == handleAppendEntries(node[m.dst], m)
       IN  /\ node' = [node EXCEPT ![m.dst] = r.st]
           /\ \E rs \in Sent({[src |-> m.dst, dst |-> m.src, term |-> r.term,
                                success |-> r.success, matchIndex |-> r.matchIndex,
                                sentTerm |-> m.term,
                                nextIdx |-> m.prevLogIndex + 1,
                                prevLogIndex |-> m.prevLogIndex,
                                sent |-> Len(m.entries)]}) :
                  appendResps' = appendResps \cup rs
    /\ appendReqs' = appendReqs \ {m}
    /\ UNCHANGED <<ticks, elections, cluster, chain, voteReqs, voteResps>>

\* an AppendEntries response reaches the sender
DeliverAppendResponse(m) ==
    /\ m \in appendResps
    /\ LET s1 == onAppendResponse(node[m.dst], Peers(m.dst), m)
       IN  /\ node' = [node EXCEPT ![m.dst] = s1]
           /\ \E ae \in Sent(IF Retries(node[m.dst], m)
                            THEN {AppendEntriesRequest(s1, m.dst, m.src)} ELSE {}) :
                  appendReqs' = appendReqs \cup ae
    /\ appendResps' = appendResps \ {m}
    /\ UNCHANGED <<ticks, elections, cluster, chain, voteReqs, voteResps>>

\* the timeout of a submitCommand call elapses (lines 166-172)
RequestTimeout(n) ==
    /\ n \in cluster
    /\ \E c \in 1..Len(node[n].calls) :
          /\ node[n].calls[c].timer
          /\ node' = [node EXCEPT ![n] = onRequestTimeout(@, c)]
    /\ UNCHANGED <<ticks, elections, cluster, chain, voteReqs, voteResps, appendReqs, appendResps>>

\* stop() on a node that was started
Stop(n) ==
    /\ n \in cluster
    /\ node[n] # NewNode
    /\ ~node[n].stopped
    /\ node' = [node EXCEPT ![n] = stop(@)]
    /\ UNCHANGED <<ticks, elections, cluster, chain, voteReqs, voteResps, appendReqs, appendResps>>

\* sendRPC fails (network error or abort): the catch blocks ignore it
LoseMessage ==
    \/ \E m \in voteReqs :
          /\ voteReqs' = voteReqs \ {m}
          /\ UNCHANGED <<ticks, elections, cluster, chain, node, voteResps, appendReqs, appendResps>>
    \/ \E m \in voteResps :
          /\ voteResps' = voteResps \ {m}
          /\ UNCHANGED <<ticks, elections, cluster, chain, node, voteReqs, appendReqs, appendResps>>
    \/ \E m \in appendReqs :
          /\ appendReqs' = appendReqs \ {m}
          /\ UNCHANGED <<ticks, elections, cluster, chain, node, voteReqs, voteResps, appendResps>>
    \/ \E m \in appendResps :
          /\ appendResps' = appendResps \ {m}
          /\ UNCHANGED <<ticks, elections, cluster, chain, node, voteReqs, voteResps, appendReqs>>

\* every step leaves the program within the bounds of the specification
InBounds == Within(MaxElections, MaxTicks, MaxLog, MaxRequests, MaxResponses)

Next ==
    \/ \E n \in Nodes : Start(n) /\ InBounds'
    \/ \E n \in Nodes : ElectionTimeout(n) /\ InBounds'
    \/ \E n \in Nodes : ElectionRoundSettled(n) /\ InBounds'
    \/ \E m \in voteReqs : DeliverRequestVote(m) /\ InBounds'
    \/ \E m \in voteResps : DeliverVoteResponse(m) /\ InBounds'
    \/ \E n \in Nodes : HeartbeatTick(n) /\ InBounds'
    \/ \E n \in Nodes : SubmitCommand(n) /\ InBounds'
    \/ \E m \in appendReqs : DeliverAppendEntries(m) /\ InBounds'
    \/ \E m \in appendResps : DeliverAppendResponse(m) /\ InBounds'
    \/ LoseMessage

Spec == Init /\ [][Next]_vars

\* The environment of SpecRepl.  The election timeouts are random: here n1's is
\* the shortest; n2's fires later, when no message is in flight and a delayed
\* AppendEntries has left n2 with fewer entries than it has committed; n3's
\* never fires.  Clients submit at n1.  A request is either not sent at all or
\* delivered, after any delay and in any order.
Silent == voteReqs = {} /\ voteResps = {} /\ appendReqs = {} /\ appendResps = {}

MayTimeOut(n) ==
    \/ n = "n1" /\ elections = 0
    \/ /\ n = "n2"
       /\ elections = 1
       /\ Silent
       /\ node["n2"].commitIndex > Len(node["n2"].log)

InBoundsRepl ==
    Within(MaxElectionsRepl, MaxTicksRepl, MaxLogRepl, MaxRequestsRepl, MaxResponsesRepl)

InitRepl == Init /\ cluster = Nodes

NextRepl ==
    \/ \E n \in Nodes : Start(n) /\ InBoundsRepl'
    \/ \E n \in Nodes : MayTimeOut(n) /\ ElectionTimeout(n) /\ InBoundsRepl'
    \/ \E n \in Nodes : ElectionRoundSettled(n) /\ InBoundsRepl'
    \/ \E m \in voteReqs : DeliverRequestVote(m) /\ InBoundsRepl'
    \/ \E m \in voteResps : DeliverVoteResponse(m) /\ InBoundsRepl'
    \/ \E n \in Nodes : HeartbeatTick(n) /\ InBoundsRepl'
    \/ SubmitCommand("n1") /\ InBoundsRepl'
    \/ \E m \in appendReqs : DeliverAppendEntries(m) /\ InBoundsRepl'
    \/ \E m \in appendResps : DeliverAppendResponse(m) /\ InBoundsRepl'

SpecRepl == InitRepl /\ [][NextRepl]_vars

\* The environment of SpecCalls.  n1's election timer fires first, then n2's,
\* then n1's again; n3's never fires.  The timeout of a submitCommand call
\* elapses at any moment after the call.  n1 may be stopped, and is not started
\* again.
MayTimeOutCalls(n) ==
    \/ n = "n1" /\ elections \in {0, 2}
    \/ n = "n2" /\ elections = 1

InBoundsCalls ==
    Within(MaxElectionsCalls, MaxTicksCalls, MaxLogCalls, MaxRequestsCalls, MaxResponsesCalls)

NextCalls ==
    \/ \E n \in Nodes : node[n] = NewNode /\ Start(n) /\ InBoundsCalls'
    \/ \E n \in Nodes : MayTimeOutCalls(n) /\ ElectionTimeout(n) /\ InBoundsCalls'
    \/ \E n \in Nodes : ElectionRoundSettled(n) /\ InBoundsCalls'
    \/ \E m \in voteReqs : DeliverRequestVote(m) /\ InBoundsCalls'
    \/ \E m \in voteResps : DeliverVoteResponse(m) /\ InBoundsCalls'
    \/ \E n \in Nodes : HeartbeatTick(n) /\ InBoundsCalls'
    \/ \E n \in Nodes : SubmitCommand(n) /\ InBoundsCalls'
    \/ \E n \in Nodes : RequestTimeout(n) /\ InBoundsCalls'
    \/ Stop("n1") /\ InBoundsCalls'
    \/ \E m \in appendReqs : DeliverAppendEntries(m) /\ InBoundsCalls'
    \/ \E m \in appendResps : DeliverAppendResponse(m) /\ InBoundsCalls'
    \/ LoseMessage

SpecCalls == InitRepl /\ [][NextCalls]_vars

\* The environment of SpecPending.  The election timers fire as in SpecRepl; clients
\* submit at any node.
InBoundsPending ==
    Within(MaxElectionsPending, MaxTicksPending, MaxLogPending, MaxRequestsPending,
           MaxResponsesPending)

NextPending ==
    \/ \E n \in Nodes : Start(n) /\ InBoundsPending'
    \/ \E n \in Nodes : MayTimeOut(n) /\ ElectionTimeout(n) /\ InBoundsPending'
    \/ \E n \in Nodes : ElectionRoundSettled(n) /\ InBoundsPending'
    \/ \E m \in voteReqs : DeliverRequestVote(m) /\ InBoundsPending'
    \/ \E m \in voteResps : DeliverVoteResponse(m) /\ InBoundsPending'
    \/ \E n \in Nodes : HeartbeatTick(n) /\ InBoundsPending'
    \/ \E n \in Nodes : SubmitCommand(n) /\ InBoundsPending'
    \/ \E m \in appendReqs : DeliverAppendEntries(m) /\ InBoundsPending'
    \/ \E m \in appendResps : DeliverAppendResponse(m) /\ InBoundsPending'

SpecPending == InitRepl /\ [][NextPending]_vars

\* The environment of SpecAgain.  The election timers fire as in SpecCalls: n1's,
\* then n2's, then n1's again.  No heartbeat ticker fires, no call times out and no
\* node is stopped; a message may stay in flight across the elections.
InBoundsAgain ==
    Within(MaxElectionsAgain, MaxTicksAgain, MaxLogAgain, MaxRequestsAgain, MaxResponsesAgain)

NextAgain ==
    \/ \E n \in Nodes : node[n] = NewNode /\ Start(n) /\ InBoundsAgain'
    \/ \E n \in Nodes : MayTimeOutCalls(n) /\ ElectionTimeout(n) /\ InBoundsAgain'
    \/ \E n \in Nodes : ElectionRoundSettled(n) /\ InBoundsAgain'
    \/ \E m \in voteReqs : DeliverRequestVote(m) /\ InBoundsAgain'
    \/ \E m \in voteResps : DeliverVoteResponse(m) /\ InBoundsAgain'
    \/ \E n \in Nodes : SubmitCommand(n) /\ InBoundsAgain'
    \/ \E m \in appendReqs : DeliverAppendEntries(m) /\ InBoundsAgain'
    \/ \E m \in appendResps : DeliverAppendResponse(m) /\ InBoundsAgain'
    \/ LoseMessage

SpecAgain == InitRepl /\ [][NextAgain]_vars

\* The environment of SpecTerms.  n2's election timer fires twice, then n1's;
\* n3's never fires.
MayTimeOutTerms(n) ==
    \/ n = "n2" /\ elections < 2
    \/ n = "n1" /\ elections = 2

InBoundsTerms ==
    Within(MaxElectionsTerms, MaxTicksTerms, MaxLogTerms, MaxRequestsTerms, MaxResponsesTerms)

NextTerms ==
    \/ \E n \in Nodes : Start(n) /\ InBoundsTerms'
    \/ \E n \in Nodes : MayTimeOutTerms(n) /\ ElectionTimeout(n) /\ InBoundsTerms'
    \/ \E n \in Nodes : ElectionRoundSettled(n) /\ InBoundsTerms'
    \/ \E m \in voteReqs : DeliverRequestVote(m) /\ InBoundsTerms'
    \/ \E m \in voteResps : DeliverVoteResponse(m) /\ InBoundsTerms'
    \/ \E n \in Nodes : HeartbeatTick(n) /\ InBoundsTerms'
    \/ \E n \in Nodes : SubmitCommand(n) /\ InBoundsTerms'
    \/ \E m \in appendReqs : DeliverAppendEntries(m) /\ InBoundsTerms'
    \/ \E m \in appendResps : DeliverAppendResponse(m) /\ InBoundsTerms'
    \/ LoseMessage

SpecTerms == InitRepl /\ [][NextTerms]_vars

\* The environment of SpecLive.  n1's election timer fires once and no other:
\* n1 is the Leader throughout.  n2 answers, and every message between n1 and n2
\* is delivered in the end; what n1 sends to n2 with a command gets into the
\* network, and so does what n2 answers to an AppendEntries request.  n3 never answers: the RPCs to it end in the abort of sendRPC.  The
\* timeout of a submitCommand call elapses at any moment after the call.
MayTimeOutLive(n) == n = "n1" /\ elections = 0

InBoundsLive ==
    Within(MaxElectionsLive, MaxTicksLive, MaxLogLive, MaxRequestsLive, MaxResponsesLive)

\* the request replicateToPeer builds for n2 is in the network
SentToPeer == AppendEntriesRequest(node["n1"], "n1", "n2") \in appendReqs

\* the abort of an RPC to n3 (sendRPC, lines 520-521)
AbortAtSilentPeer ==
    /\ LoseMessage
    /\ \A m \in voteReqs \ voteReqs' : m.dst = "n3"
    /\ \A m \in appendReqs \ appendReqs' : m.dst = "n3"
    /\ voteResps' = voteResps
    /\ appendResps' = appendResps

ElectionTimeoutLive == \E n \in Nodes : MayTimeOutLive(n) /\ ElectionTimeout(n) /\ InBoundsLive'
DeliverRequestVoteLive == \E m \in voteReqs : m.dst = "n2" /\ DeliverRequestVote(m) /\ InBoundsLive'
DeliverVoteResponseLive == \E m \in voteResps : DeliverVoteResponse(m) /\ InBoundsLive'
HeartbeatTickLive == \E n \in Nodes : HeartbeatTick(n) /\ InBoundsLive'
SubmitCommandLive == SubmitCommand("n1") /\ SentToPeer' /\ InBoundsLive'
DeliverAppendEntriesLive ==
    \E m \in appendReqs :
        m.dst = "n2" /\ DeliverAppendEntries(m) /\ appendResps' # appendResps /\ InBoundsLive'
DeliverAppendResponseLive == \E m \in appendResps : DeliverAppendResponse(m) /\ InBoundsLive'

NextLive ==
    \/ \E n \in Nodes : node[n] = NewNode /\ Start(n) /\ InBoundsLive'
    \/ ElectionTimeoutLive
    \/ \E n \in Nodes : ElectionRoundSettled(n) /\ InBoundsLive'
    \/ DeliverRequestVoteLive
    \/ DeliverVoteResponseLive
    \/ HeartbeatTickLive
    \/ SubmitCommandLive
    \/ \E n \in Nodes : RequestTimeout(n) /\ InBoundsLive'
    \/ DeliverAppendEntriesLive
    \/ DeliverAppendResponseLive
    \/ AbortAtSilentPeer

\* fetch settles every RPC: n2 handles what reaches it and its responses are
\* read, and sendRPC aborts the RPCs to n3 after three heartbeat intervals
RPCSettles ==
    \/ DeliverRequestVoteLive
    \/ DeliverVoteResponseLive
    \/ DeliverAppendEntriesLive
    \/ DeliverAppendResponseLive
    \/ AbortAtSilentPeer

\* while an RPC is outstanding, one of them settles in the end
SpecLive == InitRepl /\ [][NextLive]_vars /\ WF_vars(RPCSettles)

\* The environment of SpecRepair.  n1's election timer fires, then n2's, and no
\* other: n2, once Leader, stays Leader, and n1 is the follower it repairs.  The
\* heartbeat ticker of a Leader fires again and again (its ticks are not
\* counted), and n2's heartbeat to n1 gets into the network; every
\* AppendEntries request to n1 is handled and answered, and every response is
\* read.  n3 takes part in the elections only: the AppendEntries RPCs to it end
\* in the abort of sendRPC.
MayTimeOutRepair(n) ==
    \/ n = "n1" /\ elections = 0
    \/ n = "n2" /\ elections = 1

InBoundsRepair ==
    Within(MaxElectionsRepair, MaxTicksRepair, MaxLogRepair, MaxRequestsRepair,
           MaxResponsesRepair)

\* the heartbeat ticker fires (line 348, sendHeartbeat), uncounted
HeartbeatAgain(n) ==
    /\ n \in cluster
    /\ node[n].heartbeatTimer
    /\ \E ae \in Sent(replicateLog(node[n], n, Peers(n))) :
          appendReqs' = appendReqs \cup ae
    /\ UNCHANGED <<ticks, elections, cluster, chain, node, voteReqs, voteResps, appendResps>>

HeartbeatRepair ==
    /\ HeartbeatAgain("n2")
    /\ AppendEntriesRequest(node["n2"], "n2", "n1") \in appendReqs'
    /\ InBoundsRepair'

DeliverAppendEntriesRepair ==
    \E m \in appendReqs :
        m.dst # "n3" /\ DeliverAppendEntries(m) /\ appendResps' # appendResps /\ InBoundsRepair'

DeliverAppendResponseRepair ==
    \E m \in appendResps : DeliverAppendResponse(m) /\ InBoundsRepair'

\* the abort of an AppendEntries RPC to n3, or of a RequestVote RPC
AbortRepair ==
    /\ LoseMessage
    /\ \A m \in appendReqs \ appendReqs' : m.dst = "n3"
    /\ appendResps' = appendResps

NextRepair ==
    \/ \E n \in Nodes : node[n] = NewNode /\ Start(n) /\ InBoundsRepair'
    \/ \E n \in Nodes : MayTimeOutRepair(n) /\ ElectionTimeout(n) /\ InBoundsRepair'
    \/ \E n \in Nodes : ElectionRoundSettled(n) /\ InBoundsRepair'
    \/ \E m \in voteReqs : DeliverRequestVote(m) /\ InBoundsRepair'
    \/ \E m \in voteResps : DeliverVoteResponse(m) /\ InBoundsRepair'
    \/ HeartbeatAgain("n1") /\ InBoundsRepair'
    \/ HeartbeatRepair
    \/ \E n \in Nodes : SubmitCommand(n) /\ InBoundsRepair'
    \/ DeliverAppendEntriesRepair
    \/ DeliverAppendResponseRepair
    \/ AbortRepair

\* setInterval fires the ticker of the Leader for ever, whatever else goes on,
\* and fetch settles every RPC
SpecRepair ==
    /\ InitRepl
    /\ [][NextRepair]_vars
    /\ SF_vars(HeartbeatRepair)
    /\ WF_vars(DeliverAppendEntriesRepair)
    /\ WF_vars(DeliverAppendResponseRepair)
    /\ WF_vars(AbortRepair)

\* ------------------------------------------------------------- properties
IsPrefix(a, b) == Len(a) <= Len(b) /\ SubSeq(b, 1, Len(a)) = a

\* n stays Leader over the step and its commitIndex grows: tryCommit, or the
\* fast path of submitCommand on a node without peers
LeaderCommits(n) ==
    /\ node[n].role = LEADER
    /\ node'[n].role = LEADER
    /\ node'[n].commitIndex > node[n].commitIndex

\* C1 (election safety): no two distinct nodes have become Leader in the same term.
ElectionSafety ==
    \A a, b \in Nodes : a # b => node[a].elected \cap node[b].elected = {}

\* C2 (replicas agree on the applied sequence): any two nodes have applied the
\* same entry at every index both have applied.
AppliedAgree ==
    \A a, b \in Nodes :
        \A i \in 1..Min(Len(node[a].applied), Len(node[b].applied)) :
            node[a].applied[i] = node[b].applied[i]

\* C3 (commit needs a quorum): when a Leader with peers advances commitIndex to n,
\* a strict majority of the nodes hold the Leader's entry at index n.
CommitOnQuorum ==
    [][\A l \in Nodes :
          (LeaderCommits(l) /\ Peers(l) # {}) =>
              LET n == node'[l].commitIndex
                  holders == {x \in cluster :
                                 /\ Len(node'[x].log) >= n
                                 /\ node'[x].log[n] = node'[l].log[n]}
              IN  2 * Cardinality(holders) > Cardinality(cluster)]_vars

\* C4 (log matching): two logs with the same term at an index are identical up
\* to that index.
LogMatching ==
    \A a, b \in Nodes :
        \A i \in 1..Min(Len(node[a].log), Len(node[b].log)) :
            node[a].log[i].term = node[b].log[i].term =>
                SubSeq(node[a].log, 1, i) = SubSeq(node[b].log, 1, i)

\* C5 (current-term commit rule): the index a Leader advances commitIndex to holds
\* an entry of the Leader's current term.
CurrentTermCommit ==
    [][\A l \in Nodes :
          LeaderCommits(l) =>
              /\ node'[l].commitIndex <= Len(node'[l].log)
              /\ node'[l].log[node'[l].commitIndex].term = node'[l].currentTerm]_vars

\* an entry of an earlier term below a commitIndex that a Leader advanced in its term
IndirectCommit ==
    \E l \in Nodes :
        /\ node[l].role = LEADER
        /\ node[l].commitIndex = 2
        /\ Len(node[l].log) >= 2
        /\ node[l].log[1].term < node[l].currentTerm
        /\ node[l].log[2].term = node[l].currentTerm
        /\ node[l].currentTerm \in node[l].elected

\* C6 (commit within the log): on every node commitIndex is at most the length of
\* the log.
CommitWithinLog ==
    \A n \in Nodes : node[n].commitIndex <= Len(node[n].log)

\* C7 (commit monotonicity): no step decreases a node's commitIndex, and lastApplied
\* never exceeds commitIndex.
CommitMonotonic ==
    [][\A n \in Nodes :
          /\ node'[n].commitIndex >= node[n].commitIndex
          /\ node'[n].lastApplied <= node'[n].commitIndex]_vars

\* C8 (truncation keeps committed entries): no step removes or replaces an entry of
\* a node's log at an index up to that node's commitIndex.
TruncationKeepsCommitted ==
    [][\A n \in Nodes :
          \A i \in 1..Min(node[n].commitIndex, Len(node[n].log)) :
              /\ i <= Len(node'[n].log)
              /\ node'[n].log[i] = node[n].log[i]]_vars

\* C9 (leader append-only): over a step in which a node stays Leader its log only grows
\* at the end.
LeaderAppendOnly ==
    [][\A n \in Nodes :
          (node[n].role = LEADER /\ node'[n].role = LEADER) =>
              IsPrefix(node[n].log, node'[n].log)]_vars

\* a Leader that has appended twice in its term, while another node is Leader too
LeaderAppended ==
    \E l, o \in Nodes :
        /\ l # o
        /\ node[l].role = LEADER
        /\ node[o].role = LEADER
        /\ Len(node[l].log) = 2
        /\ node[l].log[2].term = node[l].currentTerm
        /\ node[l].log[2].command = CommandAt(l)

\* what changes a node's currentTerm: the node starts an election (lines 269-270),
\* or a message of a greater term is delivered to it
TermChange(n) ==
    \/ /\ elections' = elections + 1
       /\ node'[n].currentTerm = node[n].currentTerm + 1
       /\ node'[n].votedFor = n
       /\ node'[n].role = IF Peers(n) = {} THEN LEADER ELSE CANDIDATE
    \/ \E m \in voteReqs \ voteReqs' :
          m.dst = n /\ m.term = node'[n].currentTerm /\ m.term > node[n].currentTerm
    \/ \E m \in voteResps \ voteResps' :
          m.dst = n /\ m.term = node'[n].currentTerm /\ m.term > node[n].currentTerm
    \/ \E m \in appendReqs \ appendReqs' :
          m.dst = n /\ m.term = node'[n].currentTerm /\ m.term > node[n].currentTerm
    \/ \E m \in appendResps \ appendResps' :
          m.dst = n /\ m.term = node'[n].currentTerm /\ m.term > node[n].currentTerm

\* C10 (terms): currentTerm never decreases; it grows by one when the node starts
\* an election, or takes the greater term of a request or response delivered to it.
TermsGrow ==
    [][\A n \in Nodes :
          /\ node'[n].currentTerm >= node[n].currentTerm
          /\ node'[n].currentTerm # node[n].currentTerm => TermChange(n)]_vars

\* a Leader of term 1 that took term 2 from a peer that is Candidate in term 2
TermFromPeer ==
    \E n, o \in Nodes :
        /\ n # o
        /\ node[n].role = FOLLOWER
        /\ node[n].currentTerm = 2
        /\ node[n].elected = {1}
        /\ node[o].role = CANDIDATE
        /\ node[o].currentTerm = 2

CompletesByTimeout ==
    \A n \in Nodes : \A c \in 1..Len(node[n].calls) :
        node[n].calls[c].outcome = PENDING => node[n].calls[c].timer
\* C13 (submission to a non-leader): submitCommand on a node that is not Leader
\* throws a not-leader error, which names the leader the node knows of if it knows
\* one, changes no field of the node and starts no replication round.
NonLeaderRejects ==
    \A n \in cluster :
        node[n].role # LEADER =>
            LET r == submitCommand(node[n], n, Peers(n))
            IN  /\ r.st = node[n]
                /\ ~r.replicates
                /\ r.error # NoError
                /\ node[n].leaderId # Nil =>
                       /\ r.error.message = "Not leader. Current leader: "
                       /\ r.error.leader = node[n].leaderId
                /\ node[n].leaderId = Nil => r.error.message = "No leader available"

\* a Follower that holds entries and knows its leader, beside a Candidate that
\* knows none: submitCommand on either is rejected
FollowerKnowsLeader ==
    \E n, o \in cluster :
        /\ node[n].role = FOLLOWER
        /\ node[n].leaderId \notin {Nil, n}
        /\ Len(node[n].log) > 0
        /\ node[o].role = CANDIDATE
        /\ node[o].leaderId = Nil

\* C14 (loss of leadership): over a step that takes a node from Leader to Follower
\* every pending request fails with "No longer leader" and the map is left empty.
SteppingDownFailsPending ==
    [][\A n \in Nodes :
          (node[n].role = LEADER /\ node'[n].role = FOLLOWER) =>
              /\ node'[n].pendingRequests = {}
              /\ \A i \in node[n].pendingRequests :
                    node'[n].calls[PendingCall(node[n], i)].outcome = NO_LONGER_LEADER]_vars

\* a former Leader whose pending call has failed with "No longer leader"
SteppedDownWithPending ==
    \E n \in Nodes : \E c \in 1..Len(node[n].calls) :
        /\ node[n].role = FOLLOWER
        /\ node[n].calls[c].outcome = NO_LONGER_LEADER
        /\ node[n].calls[c].timer
\* C15 (shutdown): stop() fails every pending request with "Node stopped", and a
\* stopped node applies no entry, whatever is delivered to it.
StoppedNodeIsIdle ==
    [][\A n \in Nodes :
          /\ (~node[n].stopped /\ node'[n].stopped) =>
                /\ node'[n].pendingRequests = {}
                /\ \A i \in node[n].pendingRequests :
                      node'[n].calls[PendingCall(node[n], i)].outcome = NODE_STOPPED
          /\ (node[n].stopped /\ node'[n].stopped) =>
                /\ node'[n].lastApplied = node[n].lastApplied
                /\ node'[n].applied = node[n].applied]_vars

\* C16 (stop cancels the timers): on a stopped node neither the election timer nor
\* the heartbeat ticker is armed.
StopCancelsTimers ==
    \A n \in Nodes :
        node[n].stopped => ~node[n].electionTimer /\ ~node[n].heartbeatTimer
\* C17 (apply loop): a node applies the entries of indices 1, 2, 3, ... in this
\* order, each once: every application raises lastApplied by one and applies the
\* entry of the log at the new lastApplied, and a request pending at that index
\* when the entry is applied succeeds and is removed (the requests of a Leader
\* that steps down in the same step have failed before the entry is applied).
AppliesInOrder ==
    [][\A n \in Nodes :
          /\ Len(node'[n].applied) = node'[n].lastApplied
          /\ node'[n].lastApplied >= node[n].lastApplied
          /\ SubSeq(node'[n].applied, 1, node[n].lastApplied) = node[n].applied
          /\ \A i \in (node[n].lastApplied + 1)..node'[n].lastApplied :
                /\ i <= Len(node'[n].log)
                /\ node'[n].applied[i] = node'[n].log[i]
                /\ node'[n].applied[i].index = i
                /\ i \notin node'[n].pendingRequests
                /\ (node'[n].role = LEADER /\ i \in node[n].pendingRequests) =>
                      node'[n].calls[PendingCall(node[n], i)].outcome = SUCCESS]_vars

\* a Leader that has applied two entries in one step and completed their calls,
\* and a Follower that has applied the same two
AppliedTwo ==
    \E l, f \in Nodes :
        /\ l # f
        /\ node[l].role = LEADER
        /\ node[l].lastApplied = 2
        /\ Len(node[l].calls) = 2
        /\ \A c \in 1..2 : node[l].calls[c].outcome = SUCCESS
        /\ node[f].role = FOLLOWER
        /\ node[f].applied = node[l].applied
\* C18 (vote rule): handleRequestVote grants the vote exactly if the request's term
\* is at least currentTerm, votedFor (cleared when a greater term is adopted) is
\* empty or the candidate, and the candidate's (lastLogTerm, lastLogIndex) is at
\* least the voter's in lexicographic order; a greater term is adopted and makes
\* the node Follower; a granted vote records votedFor and resets the election timer.
VoteRule ==
    \A m \in voteReqs :
        LET s == node[m.dst]
            r == handleRequestVote(s, m)
            votedFor == IF m.term > s.currentTerm THEN Nil ELSE s.votedFor
            lastIndex == Len(s.log)
            lastTerm == IF lastIndex > 0 THEN s.log[lastIndex].term ELSE 0
            upToDate == \/ m.lastLogTerm > lastTerm
                        \/ m.lastLogTerm = lastTerm /\ m.lastLogIndex >= lastIndex
        IN  /\ r.voteGranted <=>
                  /\ m.term >= s.currentTerm
                  /\ votedFor \in {Nil, m.candidateId}
                  /\ upToDate
            /\ m.term > s.currentTerm =>
                  r.st.currentTerm = m.term /\ r.st.role = FOLLOWER
            /\ r.voteGranted =>
                  /\ r.st.votedFor = m.candidateId
                  /\ r.st.electionTimer
                  /\ r.term = m.term

\* a vote denied on the last log term alone: the request was of the voter's term,
\* the voter has not voted, the two logs are equally long, and the candidate's
\* last entry is of an older term
DeniedOnLogTerm ==
    \E r \in voteResps :
        /\ ~r.voteGranted
        /\ r.term = r.roundTerm
        /\ node[r.src].votedFor = Nil
        /\ Len(node[r.src].log) = 1
        /\ Len(node[r.dst].log) = 1
        /\ node[r.dst].log[1].term < node[r.src].log[1].term
        /\ node[r.dst].role = CANDIDATE
        /\ node[r.dst].currentTerm = r.roundTerm

\* C19 (a greater term makes a Follower): whatever its role, a node that handles a
\* RequestVote or AppendEntries request, or reads the response to one, carrying a
\* term greater than its currentTerm has afterwards a currentTerm of at least that
\* term and the role Follower; so also for a vote response that reaches a node
\* which has become Leader meanwhile.  (A vote response is read by the round that
\* sent its request; the responses looked at are those of the round of the node's
\* present term.)
HigherTermStepsDown ==
    /\ \A m \in voteReqs :
          m.term > node[m.dst].currentTerm =>
             LET s1 == handleRequestVote(node[m.dst], m).st
             IN  s1.currentTerm >= m.term /\ s1.role = FOLLOWER
    /\ \A m \in appendReqs :
          m.term > node[m.dst].currentTerm =>
             LET s1 == handleAppendEntries(node[m.dst], m).st
             IN  s1.currentTerm >= m.term /\ s1.role = FOLLOWER
    /\ \A m \in appendResps :
          m.term > node[m.dst].currentTerm =>
             LET s1 == onAppendResponse(node[m.dst], Peers(m.dst), m)
             IN  s1.currentTerm >= m.term /\ s1.role = FOLLOWER
    /\ \A m \in voteResps :
          (m.term > node[m.dst].currentTerm /\ m.roundTerm = node[m.dst].currentTerm) =>
             LET s1 == onVoteResponse(node[m.dst], m.dst, Peers(m.dst), m)
             IN  s1.currentTerm >= m.term /\ s1.role = FOLLOWER

\* C20 (election by majority): a node with peers becomes Leader exactly in the step
\* in which, still Candidate in the term of its round, it reads a granted vote of
\* that round that brings its votes (its own included) to more than half of all
\* nodes: the votes were at most half before, the term does not change, as many
\* peers as votes counted have reached the term, and nothing else makes it Leader,
\* neither a response of an earlier round nor the settling of the other RPCs.
MajorityElects ==
    [][\A n \in cluster :
          Peers(n) # {} =>
             LET s == node[n]
                 s1 == node'[n]
                 all == Cardinality(cluster)
                 becomesLeader == s.role # LEADER /\ s1.role = LEADER
                 reachesMajority ==
                     \E m \in voteResps \ voteResps' :
                         /\ m.dst = n
                         /\ s1 # s
                         /\ m.voteGranted
                         /\ s.role = CANDIDATE
                         /\ m.roundTerm = s.currentTerm
                         /\ 2 * (s.votesReceived + 1) > all
             IN  /\ becomesLeader <=> reachesMajority
                 /\ becomesLeader =>
                       /\ s1.currentTerm = s.currentTerm
                       /\ 2 * s.votesReceived <= all
                       /\ s1.votesReceived = s.votesReceived + 1
                       /\ s1.currentTerm \in s1.elected
                       /\ 2 * (1 + Cardinality({p \in Peers(n) :
                                 node[p].currentTerm >= s.currentTerm})) > all]_vars

\* a Leader of a cluster of three elected with one granted vote beside its own,
\* while the other peer has never seen the term and no vote message is in flight
ElectedByOneVote ==
    \E n \in cluster :
        /\ cluster = Nodes
        /\ node[n].role = LEADER
        /\ node[n].votesReceived = 2
        /\ \E p \in Peers(n) : node[p].currentTerm < node[n].currentTerm
        /\ voteReqs = {}
        /\ voteResps = {}

\* C21 (an accepted AppendEntries overwrites the tail): whenever handleAppendEntries
\* returns success, the receiver's log is afterwards its former entries
\* 1..prevLogIndex followed by the entries of the request, and nothing else, also
\* for a request that carries no entries.
AcceptedLogIsPrefixPlusEntries ==
    \A m \in appendReqs :
        LET r == handleAppendEntries(node[m.dst], m)
        IN  r.success =>
               /\ r.st.log = SubSeq(node[m.dst].log, 1, m.prevLogIndex) \o m.entries
               /\ Len(r.st.log) = m.prevLogIndex + Len(m.entries)

\* C22 (progress recorded from a successful response): a Leader that reads a
\* successful AppendEntries response of a term not greater than its own sets
\* matchIndex[peer] to the prevLogIndex of the request plus the number of entries
\* the request carried, and nextIndex[peer] to matchIndex[peer] + 1, whatever the
\* peer holds in its log.
MatchIndexIsWhatWasSent ==
    \A m \in appendResps :
        LET s == node[m.dst]
            s1 == onAppendResponse(s, Peers(m.dst), m)
        IN  (s.role = LEADER /\ m.success /\ m.term <= s.currentTerm) =>
               /\ s1.matchIndex[m.src] = m.prevLogIndex + m.sent
               /\ s1.nextIndex[m.src] = s1.matchIndex[m.src] + 1

\* C23 (stale requests): a RequestVote or AppendEntries request of a term less than
\* the receiver's currentTerm is refused (voteGranted, success false) with the
\* receiver's currentTerm in the response, and the receiver's state stays as it
\* was: term, votedFor, role, leaderId, log, commitIndex, election timer.
StaleRequestsRejected ==
    /\ \A m \in voteReqs :
          m.term < node[m.dst].currentTerm =>
             LET r == handleRequestVote(node[m.dst], m)
             IN  /\ ~r.voteGranted
                 /\ r.term = node[m.dst].currentTerm
                 /\ r.st = node[m.dst]
    /\ \A m \in appendReqs :
          m.term < node[m.dst].currentTerm =>
             LET r == handleAppendEntries(node[m.dst], m)
             IN  /\ ~r.success
                 /\ r.term = node[m.dst].currentTerm
                 /\ r.st = node[m.dst]

\* a Candidate of term 2 has refused the RequestVote of a Candidate of term 1 that
\* it could have voted for in term 1, and an AppendEntries request of term 1 is on
\* its way to it
StaleVoteRefused ==
    \E r \in voteResps :
        /\ ~r.voteGranted
        /\ r.term > r.roundTerm
        /\ node[r.src].currentTerm = r.term
        /\ Len(node[r.src].log) = Len(node[r.dst].log)
        /\ \E m \in appendReqs : m.dst = r.src /\ m.term < node[r.src].currentTerm

\* C24 (cluster of one): a node without peers becomes Leader in the step in which
\* its election starts, and every submitCommand on it as Leader succeeds at once:
\* the call completes with success at index = the new length of the log,
\* commitIndex and lastApplied each grow by exactly one, no request is pending,
\* and no RPC is ever sent.
SingleNodeCommitsAtOnce ==
    [][\A n \in cluster :
          Peers(n) = {} =>
             LET s == node[n]
                 s1 == node'[n]
             IN  /\ elections' = elections + 1 =>
                       /\ s1.role = LEADER
                       /\ s1.currentTerm = s.currentTerm + 1
                       /\ s1.currentTerm \in s1.elected
                 /\ (s.role = LEADER /\ s1.log # s.log) =>
                       /\ Len(s1.log) = Len(s.log) + 1
                       /\ Len(s1.calls) = Len(s.calls) + 1
                       /\ s1.calls[Len(s1.calls)].index = Len(s1.log)
                       /\ s1.calls[Len(s1.calls)].outcome = SUCCESS
                       /\ s1.commitIndex = s.commitIndex + 1
                       /\ s1.lastApplied = s.lastApplied + 1
                       /\ s1.commitIndex = Len(s1.log)
                       /\ s1.applied = s1.log
                 /\ s1.role # LEADER => s1.log = s.log
                 /\ s1.pendingRequests = {}
                 /\ voteReqs' = {} /\ voteResps' = {}
                 /\ appendReqs' = {} /\ appendResps' = {}]_vars

\* a node without peers that has committed and applied two commands, both calls
\* completed with success
SingleNodeAppliedTwo ==
    \E n \in cluster :
        /\ Peers(n) = {}
        /\ node[n].role = LEADER
        /\ node[n].commitIndex = 2
        /\ node[n].lastApplied = 2
        /\ Len(node[n].calls) = 2
        /\ \A c \in 1..2 : node[n].calls[c].outcome = SUCCESS /\ node[n].calls[c].index = c

\* C25 (two of three suffice), as stated: under a Leader that stays Leader, with a
\* peer that never answers and the messages to and from the other peer delivered
\* in the end, every command submitCommand accepted is committed in the end and
\* its call completes with success.
AcceptedCommandSucceeds ==
    \A c \in 1..MaxLogLive :
        (Len(node["n1"].calls) >= c) ~>
            /\ Len(node["n1"].calls) >= c
            /\ node["n1"].commitIndex >= node["n1"].calls[c].index
            /\ node["n1"].calls[c].outcome = SUCCESS

\* C25, amended: every accepted command is committed and applied in the end, and
\* its call completes: with success, or with "Replication timeout" when the
\* timeout of the call elapsed before the entry was applied.
AcceptedCommandCommits ==
    \A c \in 1..MaxLogLive :
        (Len(node["n1"].calls) >= c) ~>
            /\ Len(node["n1"].calls) >= c
            /\ node["n1"].commitIndex >= node["n1"].calls[c].index
            /\ node["n1"].lastApplied >= node["n1"].calls[c].index
            /\ node["n1"].calls[c].outcome \in {SUCCESS, REPLICATION_TIMEOUT}
            /\ node["n1"].calls[c].outcome = REPLICATION_TIMEOUT => ~node["n1"].calls[c].timer

\* two commands committed by the Leader and n2 alone, both calls completed with
\* success, while n3 has never handled a request
CommittedByTwoOfThree ==
    /\ node["n1"].role = LEADER
    /\ node["n1"].commitIndex = 2
    /\ node["n1"].matchIndex["n3"] = 0
    /\ node["n3"] \in {NewNode, start(NewNode)}
    /\ Len(node["n1"].calls) = 2
    /\ \A c \in 1..2 : node["n1"].calls[c].outcome = SUCCESS

TimeoutTouchesOnlyPending ==
    [][\A n \in Nodes :
          \A c \in 1..Len(node[n].calls) :
             LET s == node[n]
                 s1 == node'[n]
             IN  /\ Len(s1.calls) >= Len(s.calls)
                 /\ s.calls[c].outcome = REPLICATION_TIMEOUT =>
                        s1.calls[c].outcome = REPLICATION_TIMEOUT
                 /\ (s.calls[c].timer /\ ~s1.calls[c].timer) =>
                       /\ s1 = [s EXCEPT !.pendingRequests = s1.pendingRequests,
                                         !.calls = s1.calls]
                       /\ s1.pendingRequests = s.pendingRequests \ {s.calls[c].index}
                       /\ Len(s1.calls) = Len(s.calls)
                       /\ \A d \in 1..Len(s.calls) : d # c => s1.calls[d] = s.calls[d]
                       /\ s1.calls[c].index = s.calls[c].index
                       /\ s1.calls[c].outcome \in {s.calls[c].outcome, REPLICATION_TIMEOUT}
                       /\ s.calls[c].outcome # PENDING => s1.calls[c].outcome = s.calls[c].outcome
                       /\ s1.log = s.log
                       /\ s1.commitIndex = s.commitIndex /\ s1.currentTerm = s.currentTerm
                       /\ s1.nextIndex = s.nextIndex /\ s1.matchIndex = s.matchIndex
                       /\ \A m \in Nodes \ {n} : node'[m] = node[m]
                       /\ UNCHANGED <<voteReqs, voteResps, appendReqs, appendResps>>]_vars

\* a call that ended with "Replication timeout" on a node that is still Leader,
\* whose entry was committed and applied afterwards
TimedOutThenApplied ==
    \E n \in Nodes :
        \E c \in 1..Len(node[n].calls) :
            LET i == node[n].calls[c].index
            IN  /\ node[n].calls[c].outcome = REPLICATION_TIMEOUT
                /\ node[n].role = LEADER
                /\ node[n].commitIndex >= i
                /\ node[n].lastApplied >= i
                /\ node[n].applied[i] = node[n].log[i]
                /\ node[n].applied[i].command = CommandAt(n)
                /\ i \notin node[n].pendingRequests

\* ------------------------------------------- SpecChain: calls of the contract
\* Transactions run one after another; any account may send any call.
raft == <<cluster, node, voteReqs, voteResps, appendReqs, appendResps, elections, ticks>>

Callers == Accounts
Recipients == Accounts \cup {ZeroAddress}

\* the tickets a transfer may give away: any of the sender's, when they have enough
Moved(c, sender, eventId, quantity) ==
    IF Picks(c, eventId, sender, quantity) = {} THEN {[p \in Prices |-> 0]}
    ELSE Picks(c, eventId, sender, quantity)

\* the ticket a refund burns: one that was bought at the amount paid back, when the
\* sender holds one, otherwise any of the sender's
Refunded(c, sender, eventId) ==
    LET held == {p \in Prices : c.purchased[eventId][sender][p] > 0}
        refundAmount == getTicketPrice(c, eventId, sender)
    IN  IF held = {} THEN {0}
        ELSE IF refundAmount \in held THEN {refundAmount}
        ELSE held

CreateEvent ==
    /\ chain.nextEventId <= MaxEventIds
    /\ \E sender \in Callers, name \in Names, price \in Prices, discountedPrice \in Prices,
          maxSupply \in Quantities, startTime \in Times, endTime \in Times :
          chain' = createEvent(chain, sender, name, price, discountedPrice, maxSupply,
                               startTime, endTime)
    /\ UNCHANGED raft

SetDiscountEligibility ==
    /\ \E sender \in Callers, user \in Recipients, eligible \in BOOLEAN :
          chain' = setDiscountEligibility(chain, sender, user, eligible)
    /\ UNCHANGED raft

BuyTicket ==
    /\ \E sender \in Callers, eventId \in EventIds, value \in 0..MaxPrice :
          /\ chain' = buyTicket(chain, sender, eventId, value)
          /\ chain'.nextTicketSerial[eventId] <= MaxSerial
    /\ UNCHANGED raft

TransferTicket ==
    /\ \E sender \in Callers, eventId \in EventIds, to \in Recipients, quantity \in Quantities :
          \E moved \in Moved(chain, sender, eventId, quantity) :
              chain' = transferTicket(chain, sender, eventId, to, quantity, moved)
    /\ UNCHANGED raft

RefundTicket ==
    /\ \E sender \in Callers, eventId \in EventIds :
          \E refunded \in Refunded(chain, sender, eventId) :
              chain' = refundTicket(chain, sender, eventId, refunded)
    /\ UNCHANGED raft

Withdraw ==
    /\ \E sender \in Callers : chain' = withdraw(chain, sender)
    /\ UNCHANGED raft

\* a later block
AdvanceTime ==
    /\ chain.timestamp < MaxTime
    /\ chain' = [chain EXCEPT !.timestamp = @ + 1]
    /\ UNCHANGED raft

NextChain ==
    \/ CreateEvent
    \/ SetDiscountEligibility
    \/ BuyTicket
    \/ TransferTicket
    \/ RefundTicket
    \/ Withdraw
    \/ AdvanceTime

SpecChain == InitRepl /\ [][NextChain]_vars

\* C28 (as stated): for every event totalSold <= maxSupply in every reachable state,
\* and a buyTicket made when totalSold = maxSupply reverts with "Event sold out" and
\* leaves totalSold and all ticket balances unchanged.
NeverOversells ==
    /\ [](\A e \in EventIds : chain.events[e].totalSold <= chain.events[e].maxSupply)
    /\ [][\A sender \in Callers, e \in EventIds, value \in 0..MaxPrice :
            (/\ chain.events[e].exists
             /\ chain.events[e].totalSold = chain.events[e].maxSupply
             /\ chain' = buyTicket(chain, sender, e, value))
            => /\ chain'.last.outcome = "Event sold out"
               /\ chain'.events = chain.events
               /\ chain'.balanceOf = chain.balanceOf
               /\ chain'.ticketsByUser = chain.ticketsByUser]_vars

\* C28 (amended): for every event totalSold <= maxSupply in every reachable state,
\* and a buyTicket made before the event's endTime when totalSold = maxSupply reverts
\* with "Event sold out"; made at or after endTime it reverts with "Event has ended";
\* either way totalSold and all ticket balances are left unchanged.
NeverOversellsWhileOnSale ==
    /\ [](\A e \in EventIds : chain.events[e].totalSold <= chain.events[e].maxSupply)
    /\ [][\A sender \in Callers, e \in EventIds, value \in 0..MaxPrice :
            (/\ chain.events[e].exists
             /\ chain.events[e].totalSold = chain.events[e].maxSupply
             /\ chain' = buyTicket(chain, sender, e, value))
            => /\ chain'.last.outcome =
                     IF chain.timestamp < chain.events[e].endTime THEN "Event sold out"
                     ELSE "Event has ended"
               /\ chain'.events = chain.events
               /\ chain'.balanceOf = chain.balanceOf
               /\ chain'.ticketsByUser = chain.ticketsByUser]_vars

\* two tickets sold to two accounts, and a third purchase refused while the event is on sale
SoldOutBuyRefused ==
    /\ chain.last.op = "buyTicket"
    /\ chain.last.outcome = "Event sold out"
    /\ \E e \in EventIds :
          /\ chain.events[e].totalSold = MaxSupply
          /\ chain.events[e].maxSupply = MaxSupply
          /\ chain.timestamp < chain.events[e].endTime
          /\ \A a \in Accounts : chain.balanceOf[e][a] = 1

\* C29: a successful refundTicket burns exactly one ticket of the caller for that event,
\* decrements the event's totalSold by one, and pays the caller the amount that was paid
\* for that ticket when it was bought (the amount paid for one of the tickets the caller
\* holds), whatever purchases, transfers and eligibility changes came before.
RefundPaysOriginalPayment ==
    [][\A sender \in Callers, e \in EventIds :
         \A refunded \in Refunded(chain, sender, e) :
            (/\ chain' = refundTicket(chain, sender, e, refunded)
             /\ chain'.last.outcome = "ok")
            => /\ chain'.balanceOf[e][sender] = chain.balanceOf[e][sender] - 1
               /\ \A a \in Accounts \ {sender} : chain'.balanceOf[e][a] = chain.balanceOf[e][a]
               /\ chain'.events[e].totalSold = chain.events[e].totalSold - 1
               /\ chain'.balance = chain.balance - chain'.last.amount
               /\ chain.purchased[e][sender][chain'.last.amount] > 0]_vars

\* C30: within a term a node votes for at most one candidate: once votedFor is set in
\* term T it is neither cleared nor changed while currentTerm = T, whatever AppendEntries
\* or RequestVote messages of term T the node handles in between.
OneVotePerTerm ==
    [][\A n \in Nodes :
         (/\ node[n].votedFor # Nil
          /\ node'[n].currentTerm = node[n].currentTerm)
         => node'[n].votedFor = node[n].votedFor]_vars

\* C31: within one term of one Leader, the entries a follower has acknowledged with a
\* success response (the Leader's matchIndex for it records how many) stay in the
\* follower's log for the rest of that term, also when an older AppendEntries of the
\* same Leader is delivered after a newer one.
AcknowledgedEntriesStay ==
    [][\A l \in Nodes : \A f \in Peers(l) :
         (/\ node[l].role = LEADER
          /\ node[f].currentTerm = node[l].currentTerm
          /\ node'[f].currentTerm = node[f].currentTerm)
         => \A i \in 1..Min(node[l].matchIndex[f], Len(node[f].log)) :
                /\ i <= Len(node'[f].log)
                /\ node'[f].log[i] = node[f].log[i]]_vars

\* C32: the timeout of one submitCommand call neither removes nor completes the pending
\* request of another call: when the timeout of call c elapses, every pending request
\* that a different call registered stays in the map with its call as it was, also when
\* that call reuses the index of c.
TimeoutSparesOtherCalls ==
    [][\A n \in Nodes :
          \A c \in 1..Len(node[n].calls) :
             LET s == node[n]
                 s1 == node'[n]
             IN  (s.calls[c].timer /\ ~s1.calls[c].timer) =>
                     \A i \in s.pendingRequests :
                         PendingCall(s, i) # c =>
                             /\ i \in s1.pendingRequests
                             /\ s1.calls[PendingCall(s, i)] = s.calls[PendingCall(s, i)]]_vars

\* C33: a Leader changes nextIndex, matchIndex and commitIndex only when it reads the
\* response to an AppendEntries request it sent in its present term; the response to
\* a request it sent as Leader of an earlier term, read after it has stepped down and
\* been elected again, changes no field of the node.
OnlyPresentTermResponsesCount ==
    \A m \in appendResps :
        LET s == node[m.dst]
            s1 == onAppendResponse(s, Peers(m.dst), m)
        IN  /\ m.sentTerm # s.currentTerm =>
                  /\ s1.nextIndex = s.nextIndex
                  /\ s1.matchIndex = s.matchIndex
                  /\ s1.commitIndex = s.commitIndex
            /\ (m.sentTerm < s.currentTerm /\ s.role = LEADER /\ m.term <= s.currentTerm) =>
                  s1 = s

\* C34: while a node is Leader, for every peer nextIndex is between 1 and the length
\* of the Leader's log plus one, matchIndex is between 0 and that length, and
\* matchIndex is less than nextIndex.
LeaderIndexBounds ==
    \A l \in cluster :
        node[l].role = LEADER =>
            \A p \in Peers(l) :
                /\ 1 <= node[l].nextIndex[p]
                /\ node[l].nextIndex[p] <= Len(node[l].log) + 1
                /\ 0 <= node[l].matchIndex[p]
                /\ node[l].matchIndex[p] <= Len(node[l].log)
                /\ node[l].matchIndex[p] < node[l].nextIndex[p]

\* C35 (leader completeness): an entry that a Leader has committed is held, with the
\* same term and command at the same index, by every node that becomes Leader in a
\* later term.  The committed entries looked at are those of the submitCommand calls
\* that completed with success: such a call is completed by the Leader that accepted
\* it, in the term of its entry, when that Leader advances commitIndex to the entry.
LeaderCompleteness ==
    [][\A n \in Nodes :
         (node[n].role # LEADER /\ node'[n].role = LEADER) =>
             \A l \in Nodes : \A c \in 1..Len(node[l].calls) :
                 LET call == node[l].calls[c] IN
                 (call.outcome = SUCCESS /\ call.term < node'[n].currentTerm) =>
                     /\ call.index <= Len(node'[n].log)
                     /\ node'[n].log[call.index] =
                            [term |-> call.term, index |-> call.index,
                             command |-> CommandAt(l)]]_vars

\* C36: a node that is not Leader has no pending requests, and every pending request
\* of a Leader is registered at an index greater than lastApplied and at most the
\* length of the log.
PendingOnlyAtLeader ==
    \A n \in Nodes :
        /\ node[n].role # LEADER => node[n].pendingRequests = {}
        /\ node[n].role = LEADER =>
              \A i \in node[n].pendingRequests :
                  node[n].lastApplied < i /\ i <= Len(node[n].log)

\* C37: whenever a submitCommand call completes with success and index i, the entry
\* at index i of that node's log carries the caller's command and the term in which
\* it was submitted, and i <= commitIndex; the call that is completed is the one
\* whose entry was applied.
SuccessIsForOwnEntry ==
    [][\A n \in Nodes : \A c \in 1..Len(node'[n].calls) :
          LET call == node'[n].calls[c]
              completes == /\ call.outcome = SUCCESS
                           /\ c <= Len(node[n].calls) => node[n].calls[c].outcome = PENDING
          IN  completes =>
                  /\ EntryAt(node'[n].log, call.index) =
                         [term |-> call.term, index |-> call.index, command |-> CommandAt(n)]
                  /\ call.index <= node'[n].commitIndex
                  /\ call.index <= node'[n].lastApplied
                  /\ call.index > node[n].lastApplied
                  /\ call.index \notin node'[n].pendingRequests
                  /\ \A d \in 1..Len(node'[n].calls) :
                         d # c => \/ node'[n].calls[d].index # call.index
                                  \/ node'[n].calls[d].term # call.term]_vars

\* a Leader's first call has completed with success for the entry at index 1, the
\* only one committed, while its second call, for the entry at index 2, is pending
FirstOfTwoSucceeded ==
    \E n \in Nodes :
        /\ node[n].role = LEADER
        /\ Len(node[n].log) = 2 /\ node[n].commitIndex = 1 /\ node[n].lastApplied = 1
        /\ Len(node[n].calls) = 2
        /\ node[n].calls[1] = NewCall(1, node[n].currentTerm, SUCCESS, TRUE)
        /\ node[n].calls[2] = NewCall(2, node[n].currentTerm, PENDING, TRUE)
        /\ node[n].pendingRequests = {2}

\* C38: handleAppendEntries is idempotent: a request handled twice in a row leaves
\* the node (term, role, votedFor, log, commitIndex, lastApplied, and the entries
\* it has applied) and the response as a single handling leaves them.
AppendEntriesIdempotent ==
    \A m \in appendReqs :
        LET r1 == handleAppendEntries(node[m.dst], m)
            r2 == handleAppendEntries(r1.st, m)
        IN  /\ r2.st.currentTerm = r1.st.currentTerm
            /\ r2.st.role = r1.st.role
            /\ r2.st.votedFor = r1.st.votedFor
            /\ r2.st.log = r1.st.log
            /\ r2.st.commitIndex = r1.st.commitIndex
            /\ r2.st.lastApplied = r1.st.lastApplied
            /\ r2.st.applied = r1.st.applied
            /\ r2.st = r1.st
            /\ r2.term = r1.term /\ r2.success = r1.success /\ r2.matchIndex = r1.matchIndex

\* a request with entries is on its way to a node that has stored these entries
\* before, with a longer log than the request covers, and the node accepts it
ResentEntriesInFlight ==
    \E m \in appendReqs :
        LET s == node[m.dst]
            r == handleAppendEntries(s, m)
            last == m.prevLogIndex + Len(m.entries)
        IN  /\ Len(m.entries) > 0
            /\ Len(s.log) >= last
            /\ SubSeq(s.log, m.prevLogIndex + 1, last) = m.entries
            /\ r.success
            /\ r.st.log = SubSeq(s.log, 1, last)

\* C39: in every step in which a node becomes Leader, nextIndex[peer] is len(log) + 1
\* and matchIndex[peer] is 0 for every peer afterwards, the replication round of
\* that step has one request for every peer, built from these values, and
\* onLeaderElected is called once, for the term of the election; no other step
\* calls onLeaderElected.
BecomesLeaderAtOnce ==
    [][\A n \in Nodes :
          LET s == node[n]
              s1 == node'[n]
              round == replicateLog(s1, n, Peers(n))
          IN  IF s.role # LEADER /\ s1.role = LEADER
              THEN /\ \A p \in Peers(n) :
                          /\ s1.nextIndex[p] = Len(s1.log) + 1
                          /\ s1.matchIndex[p] = 0
                          /\ \E m \in round :
                                 /\ m.dst = p /\ m.src = n /\ m.term = s1.currentTerm
                                 /\ m.prevLogIndex = Len(s1.log) /\ m.entries = << >>
                                 /\ m.leaderCommit = s1.commitIndex
                   /\ Cardinality(round) = Cardinality(Peers(n))
                   /\ appendReqs' \ appendReqs \subseteq round
                   /\ s1.heartbeatTimer /\ s1.leaderId = n
                   /\ s1.currentTerm \notin s.elected
                   /\ s1.elected = s.elected \cup {s1.currentTerm}
              ELSE s1.elected = s.elected]_vars

\* a node elected for the second time, with an entry in its log: every peer's
\* nextIndex is 2 and matchIndex is 0, and the requests of the first round to both
\* peers are in flight
LeaderAgainWithRoundInFlight ==
    \E n \in Nodes :
        /\ node[n].role = LEADER
        /\ Cardinality(node[n].elected) = 2
        /\ Len(node[n].log) = 1
        /\ \A p \in Peers(n) : node[n].nextIndex[p] = 2 /\ node[n].matchIndex[p] = 0
        /\ replicateLog(node[n], n, Peers(n)) \subseteq appendReqs
        /\ \A m \in replicateLog(node[n], n, Peers(n)) : m.entries = << >>

====
